---- MODULE Spec2Model ----
(***************************************************************************)
(* simplifi-worthbar: the snapshot-acquisition pipeline of                 *)
(* get_networth_label.py.  One invocation of fetch_snapshot is a sequence  *)
(* of steps (session, config, token, API calls, reconciliation, cache      *)
(* fallback, classification); the files the program owns and the host      *)
(* storage it reads persist between invocations.                           *)
(*                                                                         *)
(* Times are whole minutes.  Amounts are whole multiples of half the       *)
(* near-zero threshold (1e-9) of the percent computation.                  *)
(***************************************************************************)
EXTENDS Integers, Sequences, FiniteSets, TLC

\* ------------------------------------------------------------------ bounds
\* the clock runs over 0..MaxClock
MaxClock == 1
\* expiry timestamps run up to MaxExp
MaxExp == 4
\* rows of a balances / history payload handed to the reconciliation
MaxRows == 2
\* the dates a response may speak of are 1..MaxDate
MaxDate == 3
\* percents to print are drawn from -MaxTenths / 10 to MaxTenths / 10
MaxTenths == 26

\* ------------------------------------------------------- program constants
\* dt.timedelta(minutes=2)
Margin == 2
\* e.code != 401
Unauthorized == 401
\* 1e-9, in amount units
NearZero == 2
\* _parse_iso_datetime(...) is None
NoExp == -1

NoTok == "none"
NoId == "none"

\* ------------------------------------------------------------ message text
\* MenubarX WebKit storage missing: /Users/u/Library/Containers/com.app.menubarx/Data/Library/WebKit/WebsiteData/Default
MsgStorageMissing ==
    <<"M","e","n","u","b","a","r","X"," ","W","e","b","K","i","t"," ","s","t","o","r","a","g",
      "e"," ","m","i","s","s","i","n","g",":"," ","/","U","s","e","r","s","/","u","/","L","i",
      "b","r","a","r","y","/","C","o","n","t","a","i","n","e","r","s","/","c","o","m",".","a",
      "p","p",".","m","e","n","u","b","a","r","x","/","D","a","t","a","/","L","i","b","r","a",
      "r","y","/","W","e","b","K","i","t","/","W","e","b","s","i","t","e","D","a","t","a","/",
      "D","e","f","a","u","l","t">>

\* Could not locate MenubarX origin directory for simplifi.quicken.com
MsgNoOrigin ==
    <<"C","o","u","l","d"," ","n","o","t"," ","l","o","c","a","t","e"," ","M","e","n","u","b",
      "a","r","X"," ","o","r","i","g","i","n"," ","d","i","r","e","c","t","o","r","y"," ","f",
      "o","r"," ","s","i","m","p","l","i","f","i",".","q","u","i","c","k","e","n",".","c","o",
      "m">>

\* MenubarX LocalStorage DB missing: /Users/u/Library/Containers/com.app.menubarx/Data/Library/WebKit/WebsiteData/Default/a/b/LocalStorage/localstorage.sqlite3
MsgDbMissing ==
    <<"M","e","n","u","b","a","r","X"," ","L","o","c","a","l","S","t","o","r","a","g","e"," ",
      "D","B"," ","m","i","s","s","i","n","g",":"," ","/","U","s","e","r","s","/","u","/","L",
      "i","b","r","a","r","y","/","C","o","n","t","a","i","n","e","r","s","/","c","o","m",".",
      "a","p","p",".","m","e","n","u","b","a","r","x","/","D","a","t","a","/","L","i","b","r",
      "a","r","y","/","W","e","b","K","i","t","/","W","e","b","s","i","t","e","D","a","t","a",
      "/","D","e","f","a","u","l","t","/","a","/","b","/","L","o","c","a","l","S","t","o","r",
      "a","g","e","/","l","o","c","a","l","s","t","o","r","a","g","e",".","s","q","l","i","t",
      "e","3">>

\* authSession not found in MenubarX LocalStorage
MsgNoAuthSession ==
    <<"a","u","t","h","S","e","s","s","i","o","n"," ","n","o","t"," ","f","o","u","n","d"," ",
      "i","n"," ","M","e","n","u","b","a","r","X"," ","L","o","c","a","l","S","t","o","r","a",
      "g","e">>

\* authSession value is not a blob
MsgNotBlob ==
    <<"a","u","t","h","S","e","s","s","i","o","n"," ","v","a","l","u","e"," ","i","s"," ","n",
      "o","t"," ","a"," ","b","l","o","b">>

\* Expecting value: line 1 column 1 (char 0)
MsgJsonDecode ==
    <<"E","x","p","e","c","t","i","n","g"," ","v","a","l","u","e",":"," ","l","i","n","e"," ",
      "1"," ","c","o","l","u","m","n"," ","1"," ","(","c","h","a","r"," ","0",")">>

\* authSession is not a JSON object
MsgNotObject ==
    <<"a","u","t","h","S","e","s","s","i","o","n"," ","i","s"," ","n","o","t"," ","a"," ","J",
      "S","O","N"," ","o","b","j","e","c","t">>

\* Missing refreshToken in authSession (are you logged in?)
MsgNoRefreshToken ==
    <<"M","i","s","s","i","n","g"," ","r","e","f","r","e","s","h","T","o","k","e","n"," ","i",
      "n"," ","a","u","t","h","S","e","s","s","i","o","n"," ","(","a","r","e"," ","y","o","u",
      " ","l","o","g","g","e","d"," ","i","n","?",")">>

\* Missing datasetId in authSession
MsgNoDatasetId ==
    <<"M","i","s","s","i","n","g"," ","d","a","t","a","s","e","t","I","d"," ","i","n"," ","a",
      "u","t","h","S","e","s","s","i","o","n">>

\* <urlopen error timed out>
MsgUrlError ==
    <<"<","u","r","l","o","p","e","n"," ","e","r","r","o","r"," ","t","i","m","e","d"," ","o",
      "u","t",">">>

\* Could not find main bundle script in Simplifi HTML
MsgNoBundle ==
    <<"C","o","u","l","d"," ","n","o","t"," ","f","i","n","d"," ","m","a","i","n"," ","b","u",
      "n","d","l","e"," ","s","c","r","i","p","t"," ","i","n"," ","S","i","m","p","l","i","f",
      "i"," ","H","T","M","L">>

\* Could not find Simplifi config module in main bundle
MsgNoConfigModule ==
    <<"C","o","u","l","d"," ","n","o","t"," ","f","i","n","d"," ","S","i","m","p","l","i","f",
      "i"," ","c","o","n","f","i","g"," ","m","o","d","u","l","e"," ","i","n"," ","m","a","i",
      "n"," ","b","u","n","d","l","e">>

\* HTTP Error 400: Bad Request
MsgHttp400 ==
    <<"H","T","T","P"," ","E","r","r","o","r"," ","4","0","0",":"," ","B","a","d"," ","R","e",
      "q","u","e","s","t">>

\* HTTP Error 401: Unauthorized
MsgHttp401 ==
    <<"H","T","T","P"," ","E","r","r","o","r"," ","4","0","1",":"," ","U","n","a","u","t","h",
      "o","r","i","z","e","d">>

\* HTTP Error 500: Internal Server Error
MsgHttp500 ==
    <<"H","T","T","P"," ","E","r","r","o","r"," ","5","0","0",":"," ","I","n","t","e","r","n",
      "a","l"," ","S","e","r","v","e","r"," ","E","r","r","o","r">>

\* Refresh token exchange did not return accessToken
MsgNoAccessToken ==
    <<"R","e","f","r","e","s","h"," ","t","o","k","e","n"," ","e","x","c","h","a","n","g","e",
      " ","d","i","d"," ","n","o","t"," ","r","e","t","u","r","n"," ","a","c","c","e","s","s",
      "T","o","k","e","n">>

\* Unexpected accounts/balances response shape
MsgBadShape ==
    <<"U","n","e","x","p","e","c","t","e","d"," ","a","c","c","o","u","n","t","s","/","b","a",
      "l","a","n","c","e","s"," ","r","e","s","p","o","n","s","e"," ","s","h","a","p","e">>

\* No balance totals available
MsgNoTotals ==
    <<"N","o"," ","b","a","l","a","n","c","e"," ","t","o","t","a","l","s"," ","a","v","a","i",
      "l","a","b","l","e">>

\* Could not find accountsStore in MenubarX cache
MsgNoAccountsStore ==
    <<"C","o","u","l","d"," ","n","o","t"," ","f","i","n","d"," ","a","c","c","o","u","n","t",
      "s","S","t","o","r","e"," ","i","n"," ","M","e","n","u","b","a","r","X"," ","c","a","c",
      "h","e">>

\* Could not find accountsBalancesHistoryStore in MenubarX cache
MsgNoHistoryStore ==
    <<"C","o","u","l","d"," ","n","o","t"," ","f","i","n","d"," ","a","c","c","o","u","n","t",
      "s","B","a","l","a","n","c","e","s","H","i","s","t","o","r","y","S","t","o","r","e"," ",
      "i","n"," ","M","e","n","u","b","a","r","X"," ","c","a","c","h","e">>

\* Unable to decode Simplifi cache payload
MsgUndecodable ==
    <<"U","n","a","b","l","e"," ","t","o"," ","d","e","c","o","d","e"," ","S","i","m","p","l",
      "i","f","i"," ","c","a","c","h","e"," ","p","a","y","l","o","a","d">>

\* 'list' object has no attribute 'get'
MsgListHasNoGet ==
    <<"'","l","i","s","t","'"," ","o","b","j","e","c","t"," ","h","a","s"," ","n","o"," ","a",
      "t","t","r","i","b","u","t","e"," ","'","g","e","t","'">>

\* Unexpected response type for /accounts
MsgBadAccounts ==
    <<"U","n","e","x","p","e","c","t","e","d"," ","r","e","s","p","o","n","s","e"," ","t","y",
      "p","e"," ","f","o","r"," ","/","a","c","c","o","u","n","t","s">>

\* Unexpected response type for /accounts/balances
MsgBadBalances ==
    <<"U","n","e","x","p","e","c","t","e","d"," ","r","e","s","p","o","n","s","e"," ","t","y",
      "p","e"," ","f","o","r"," ","/","a","c","c","o","u","n","t","s","/","b","a","l","a","n",
      "c","e","s">>

KwAuthSession == <<"a","u","t","h","s","e","s","s","i","o","n">>
KwLoggedIn == <<"l","o","g","g","e","d"," ","i","n">>
KwRefreshToken == <<"r","e","f","r","e","s","h","t","o","k","e","n">>
KwDatasetId == <<"d","a","t","a","s","e","t","i","d">>
CodeSigninRequired == <<"s","i","g","n","i","n","_","r","e","q","u","i","r","e","d">>
CodeUnavailable == <<"u","n","a","v","a","i","l","a","b","l","e">>

\* str.lower() on the letters the messages use
LowerOf ==
    [A |-> "a", B |-> "b", C |-> "c", D |-> "d", E |-> "e", F |-> "f", G |-> "g",
     H |-> "h", I |-> "i", J |-> "j", K |-> "k", L |-> "l", M |-> "m", N |-> "n",
     O |-> "o", P |-> "p", Q |-> "q", R |-> "r", S |-> "s", T |-> "t", U |-> "u",
     V |-> "v", W |-> "w", X |-> "x", Y |-> "y", Z |-> "z"]

Lower(s) ==
    [i \in 1..Len(s) |-> IF s[i] \in DOMAIN LowerOf THEN LowerOf[s[i]] ELSE s[i]]

\* needle in haystack
Contains(haystack, needle) ==
    \E i \in 1..(Len(haystack) - Len(needle) + 1) :
        SubSeq(haystack, i, i + Len(needle) - 1) = needle

\* classify_error, on str(exc)
classify_error(message) ==
    LET m == Lower(message)
    IN  IF \/ Contains(m, KwAuthSession)
           \/ Contains(m, KwLoggedIn)
           \/ Contains(m, KwRefreshToken)
           \/ Contains(m, KwDatasetId)
        THEN CodeSigninRequired
        ELSE CodeUnavailable

\* an exception: its class, its HTTP status (0 when it has none) and str(exc)
Exc(type, code, msg) == [type |-> type, code |-> code, msg |-> msg]
NoError == Exc("none", 0, <<>>)

\* ------------------------------------------------------------------ tokens
RefreshTokens == {"R1", "R2"}
\* the token a session embeds, and the tokens the token endpoint issues
SessionToken == "tS"
IssuedTokens == {"tA", "tB"}
\* expiry timestamps; one at or before Margin is stale at every clock value
ExpTimes == Margin..MaxExp

\* token_cache.json: the payload of _write_token_cache, or no file
TokenFile(rt, at, exp) ==
    [exists |-> TRUE, refreshToken |-> rt, accessToken |-> at, accessTokenExpired |-> exp]
NoTokenFile ==
    [exists |-> FALSE, refreshToken |-> NoTok, accessToken |-> NoTok,
     accessTokenExpired |-> NoExp]
TokenFiles ==
    {NoTokenFile} \cup
    {TokenFile(rt, at, exp) : rt \in RefreshTokens, at \in IssuedTokens,
                              exp \in ExpTimes \cup {NoExp}}

\* the authSession object of the host's LocalStorage
Session(rt, ds, at, exp) ==
    [refreshToken |-> rt, datasetId |-> ds, accessToken |-> at, accessTokenExpired |-> exp]
NoSession == Session(NoTok, NoId, NoTok, NoExp)
Sessions ==
    {Session(rt, ds, SessionToken, exp) :
        rt \in RefreshTokens \cup {NoTok}, ds \in {"ds1", NoId},
        exp \in ExpTimes \cup {NoExp}}
    \cup {Session(rt, ds, NoTok, NoExp) :
        rt \in RefreshTokens \cup {NoTok}, ds \in {"ds1", NoId}}

\* Fresh with the margin itself accepted (fault injected for C3)
FreshAtMargin(exp, t) == exp - t >= Margin

\* exp - now > dt.timedelta(minutes=2)
Fresh(exp, t) == exp - t > Margin

\* _load_cached_access_token with the binding test inverted (fault injected for C1)
load_cached_inverted(file, refresh_token) ==
    IF ~file.exists THEN <<>>
    ELSE IF file.refreshToken = refresh_token THEN <<>>
    ELSE IF file.accessToken = NoTok \/ file.accessTokenExpired = NoExp THEN <<>>
    ELSE <<file.accessToken, file.accessTokenExpired>>

\* _load_cached_access_token without the binding test (fault injected for C2)
load_cached_unbound(file, refresh_token) ==
    IF ~file.exists THEN <<>>
    ELSE IF file.accessToken = NoTok \/ file.accessTokenExpired = NoExp THEN <<>>
    ELSE <<file.accessToken, file.accessTokenExpired>>

\* _load_cached_access_token: <<access, exp>>, or <<>> for None
load_cached_access_token(file, refresh_token) ==
    IF ~file.exists THEN <<>>
    ELSE IF file.refreshToken # refresh_token THEN <<>>
    ELSE IF file.accessToken = NoTok \/ file.accessTokenExpired = NoExp THEN <<>>
    ELSE <<file.accessToken, file.accessTokenExpired>>

\* the cached branch never taken (fault injected for C25)
cached_token_never(file, session, t) == NoTok

\* the cached branch of compute_live_snapshot
cached_token(file, session, t) ==
    LET cached == load_cached_access_token(file, session.refreshToken)
    IN  IF cached # <<>> /\ Fresh(cached[2], t) THEN cached[1] ELSE NoTok

\* the session branch of compute_live_snapshot
session_token(session, t) ==
    IF /\ session.accessToken # NoTok
       /\ session.accessTokenExpired # NoExp
       /\ Fresh(session.accessTokenExpired, t)
    THEN session.accessToken
    ELSE NoTok

\* select_token with the session branch tried first (fault injected for C4)
select_session_first(file, session, t) ==
    IF session_token(session, t) # NoTok
    THEN [token |-> session_token(session, t), via |-> "session"]
    ELSE IF cached_token(file, session, t) # NoTok
    THEN [token |-> cached_token(file, session, t), via |-> "cached"]
    ELSE [token |-> NoTok, via |-> "none"]

\* access_token and where it came from, before any exchange
select_token(file, session, t) ==
    IF cached_token(file, session, t) # NoTok
    THEN [token |-> cached_token(file, session, t), via |-> "cached"]
    ELSE IF session_token(session, t) # NoTok
    THEN [token |-> session_token(session, t), via |-> "session"]
    ELSE [token |-> NoTok, via |-> "none"]

\* _write_token_cache binding the entry to no session (fault injected for C19)
write_token_cache_unbound(refresh_token, token_obj) ==
    TokenFile(NoTok, token_obj.accessToken, token_obj.accessTokenExpired)

\* _write_token_cache
write_token_cache(refresh_token, token_obj) ==
    TokenFile(refresh_token, token_obj.accessToken, token_obj.accessTokenExpired)

\* ---------------------------------------------------------- JSON and numbers
\* a JSON value as the numeric tests see it
JNum(v) == [kind |-> "number", v |-> v]
JNull == [kind |-> "null", v |-> 0]

\* to_number: <<float>>, or <<>> for None
to_number(value) == IF value.kind = "number" THEN <<value.v>> ELSE <<>>

\* Python's "a or b" on Optional[float]: None and 0.0 are falsy
PyOr(a, b) == IF a # <<>> /\ a[1] # 0 THEN a ELSE b

Abs(x) == IF x < 0 THEN -x ELSE x
Max(S) == CHOOSE m \in S : \A x \in S : x <= m

\* sorted(...) of a set of dates, ascending
RECURSIVE Sorted(_)
Sorted(S) == IF S = {} THEN <<>> ELSE Append(Sorted(S \ {Max(S)}), Max(S))

\* a percent change as the exact quotient <<numerator, denominator>>
PercentZero == <<0, 1>>
PercentChange(latest, prev) == <<(latest - prev) * 100, Abs(prev)>>

\* -------------------------------------------------- live reconciliation
AccountKeys == {"a1", "a2", "a3"}
\* balanceOn values in their sort order; 0 is a missing or non-string date
Dates == 1..MaxDate
BalanceTypes == {"ONLINE", "CURRENT"}

\* an account of GET /accounts
Account(id, deleted, ignored, closed, hasOnline, connected, login) ==
    [id |-> id, isDeleted |-> deleted, isIgnored |-> ignored, isClosed |-> closed,
     hasOnlineBalance |-> hasOnline, isConnected |-> connected,
     institutionLoginId |-> login]

\* a row of GET /accounts/balances
Balance(account, date, type, amount) ==
    [accountId |-> account, balanceOn |-> date, balanceType |-> type,
     balanceAmount |-> amount]

\* is_excluded without the isClosed test (fault injected for C10)
is_excluded_open_only(rec) == rec.isDeleted \/ rec.isIgnored

\* isDeleted / isIgnored / isClosed is True
is_excluded(rec) == rec.isDeleted \/ rec.isIgnored \/ rec.isClosed

\* ONLINE for connected accounts, CURRENT for manual/offline
is_online(acct) == acct.hasOnlineBalance \/ acct.isConnected \/ acct.institutionLoginId

\* the preferred dict: key -> tag, "" where preferred.get(key) is None
RECURSIVE preferred_tags(_)
preferred_tags(accounts) ==
    IF accounts = <<>> THEN [k \in AccountKeys |-> ""]
    ELSE LET before == preferred_tags(SubSeq(accounts, 1, Len(accounts) - 1))
             acct == accounts[Len(accounts)]
         IN  IF is_excluded(acct) \/ acct.id = NoId THEN before
             ELSE [before EXCEPT ![acct.id] =
                      IF is_online(acct) THEN "ONLINE" ELSE "CURRENT"]

\* row_is_usable without the numeric test of the amount (fault injected for C22)
row_of_any_amount(bal, preferred) ==
    /\ bal.accountId # NoId
    /\ bal.balanceOn # 0
    /\ preferred[bal.accountId] # ""
    /\ bal.balanceType = preferred[bal.accountId]

\* row_is_usable without the balance-type test (fault injected for C13)
row_of_any_type(bal, preferred) ==
    /\ bal.accountId # NoId
    /\ bal.balanceOn # 0
    /\ preferred[bal.accountId] # ""
    /\ bal.balanceAmount.kind = "number"

\* the tests a balance row passes before it is accumulated
row_is_usable(bal, preferred) ==
    /\ bal.accountId # NoId
    /\ bal.balanceOn # 0
    /\ preferred[bal.accountId] # ""
    /\ bal.balanceType = preferred[bal.accountId]
    /\ bal.balanceAmount.kind = "number"

\* totals_by_date: date -> {total, count}; count 0 where the dict has no entry
NoTotals == [d \in Dates |-> [total |-> 0, count |-> 0]]

RECURSIVE accumulate(_, _)
accumulate(balances, preferred) ==
    IF balances = <<>> THEN NoTotals
    ELSE LET before == accumulate(SubSeq(balances, 1, Len(balances) - 1), preferred)
             bal == balances[Len(balances)]
         IN  IF row_is_usable(bal, preferred)
             THEN [before EXCEPT ![bal.balanceOn] =
                      [total |-> @.total + bal.balanceAmount.v, count |-> @.count + 1]]
             ELSE before

\* totals_by_date of compute_live_snapshot
live_totals(accounts, balances) == accumulate(balances, preferred_tags(accounts))

all_dates(totals) == {d \in Dates : totals[d].count > 0}
max_count(totals) == Max({totals[d].count : d \in all_dates(totals)})
complete_dates(totals) == {d \in all_dates(totals) : totals[d].count = max_count(totals)}

\* latest_date as the last date overall (fault injected for C12)
latest_overall(totals) == Max(all_dates(totals))

latest_date(totals) ==
    IF complete_dates(totals) # {} THEN Max(complete_dates(totals))
    ELSE Max(all_dates(totals))

\* prev_date as the second-to-last date overall (fault injected for C20)
prev_overall(totals) ==
    LET all == Sorted(all_dates(totals))
    IN  IF Len(all) >= 2 THEN all[Len(all) - 1] ELSE 0

\* prev_date, 0 for None
prev_date(totals) ==
    LET complete == Sorted(complete_dates(totals))
        all == Sorted(all_dates(totals))
    IN  IF Len(complete) >= 2 THEN complete[Len(complete) - 1]
        ELSE IF Len(all) >= 2 THEN all[Len(all) - 1]
        ELSE 0

live_percent(totals) ==
    LET latest_total == totals[latest_date(totals)].total
    IN  IF prev_date(totals) # 0 /\ Abs(totals[prev_date(totals)].total) > NearZero
        THEN PercentChange(latest_total, totals[prev_date(totals)].total)
        ELSE PercentZero

Snapshot(total, percent, source) ==
    [total |-> total, daily_percent |-> percent, source |-> source]
NoSnapshot == Snapshot(0, PercentZero, "none")

\* the return value of compute_live_snapshot, given non-empty totals
live_snapshot(totals) ==
    Snapshot(totals[latest_date(totals)].total, live_percent(totals), "live")

\* -------------------------------------------------------- cache computation
\* a value of data.resourcesById in the accountsStore payload
Resource(deleted, ignored, closed, normalized, current, online, asOf) ==
    [isDeleted |-> deleted, isIgnored |-> ignored, isClosed |-> closed,
     normalizedBalance |-> normalized, currentBalanceAsOf |-> current,
     onlineBalance |-> online, balanceAsOf |-> asOf]

\* the balance compute_total adds for one record
resource_balance(rec) ==
    LET picked == PyOr(PyOr(PyOr(to_number(rec.normalizedBalance),
                                 to_number(rec.currentBalanceAsOf)),
                            to_number(rec.onlineBalance)),
                       to_number(rec.balanceAsOf))
    IN  IF picked # <<>> /\ picked[1] # 0 THEN picked[1] ELSE 0

RECURSIVE compute_total(_)
compute_total(resources) ==
    IF resources = <<>> THEN 0
    ELSE LET before == compute_total(SubSeq(resources, 1, Len(resources) - 1))
             rec == resources[Len(resources)]
         IN  IF is_excluded(rec) THEN before ELSE before + resource_balance(rec)

\* a cell of a history row
Cell(date, value) == [date |-> date, value |-> value]

RECURSIVE history_totals(_)
history_totals(cells) ==
    IF cells = <<>> THEN NoTotals
    ELSE LET before == history_totals(SubSeq(cells, 1, Len(cells) - 1))
             cell == cells[Len(cells)]
         IN  IF cell.date = 0 \/ to_number(cell.value) = <<>> THEN before
             ELSE [before EXCEPT ![cell.date] =
                      [total |-> @.total + to_number(cell.value)[1],
                       count |-> @.count + 1]]

\* the cells of all rows, in iteration order
RECURSIVE all_cells(_)
all_cells(rows) ==
    IF rows = <<>> THEN <<>>
    ELSE all_cells(SubSeq(rows, 1, Len(rows) - 1)) \o rows[Len(rows)]

compute_daily_percent(rows) ==
    LET totals == history_totals(all_cells(rows))
        dates == Sorted(all_dates(totals))
    IN  IF Len(dates) < 2 THEN PercentZero
        ELSE IF Abs(totals[dates[Len(dates) - 1]].total) < NearZero THEN PercentZero
        ELSE PercentChange(totals[dates[Len(dates)]].total,
                           totals[dates[Len(dates) - 1]].total)

\* ------------------------------------------------------- failure of both paths
\* combined_failure built from the cache error (fault injected for C7)
combined_from_cache(live, cache) ==
    classify_error(cache.msg) \o <<":">> \o cache.msg

\* the message fetch_snapshot raises: f'{code}:{message}'
combined_failure(live, cache) ==
    classify_error(live.msg) \o <<":">> \o live.msg

\* payloads of the live API as the pipeline sees them
ApiPayload(isList, resources) == [isList |-> isList, resources |-> resources]
NoPayload == ApiPayload(FALSE, <<>>)

ActiveAccount == Account("a1", FALSE, FALSE, FALSE, FALSE, TRUE, FALSE)
ClosedAccount == Account("a2", FALSE, FALSE, TRUE, FALSE, TRUE, FALSE)

\* the resources GET /accounts answers with in the pipeline
AccountsResponses ==
    {ApiPayload(FALSE, <<>>),
     ApiPayload(TRUE, <<ActiveAccount, ClosedAccount>>)}

\* the resources GET /accounts/balances answers with in the pipeline
BalancesResponses ==
    {ApiPayload(FALSE, <<>>),
     ApiPayload(TRUE, <<Balance("a2", 2, "ONLINE", JNum(3))>>),
     ApiPayload(TRUE, <<Balance("a1", 2, "ONLINE", JNum(3))>>),
     ApiPayload(TRUE, <<Balance("a1", 1, "ONLINE", JNum(3)),
                        Balance("a1", 2, "ONLINE", JNum(1)),
                        Balance("a2", 2, "ONLINE", JNum(3))>>)}

\* a decoded cache payload: "expected" is a JSON object whose data.resourcesById
\* (data.rows) holds the items; "other" is a JSON array, or any value on which
\* the .get chain of compute_total / compute_daily_percent raises
CachePayload(shape, items) == [shape |-> shape, items |-> items]
NoCachePayload == CachePayload("none", <<>>)

\* what decode_payload returns for the accountsStore blob in the pipeline
AccountsStorePayloads ==
    {CachePayload("other", <<>>),
     CachePayload("expected",
        <<Resource(FALSE, FALSE, FALSE, JNum(3), JNull, JNull, JNull),
          Resource(TRUE, FALSE, FALSE, JNum(1), JNull, JNull, JNull)>>)}

\* what decode_payload returns for the history blob in the pipeline
HistoryStorePayloads ==
    {CachePayload("other", <<>>),
     CachePayload("expected", << <<Cell(1, JNum(3)), Cell(2, JNum(1))>> >>)}

\* ----------------------------------------------------------------- labels
\* a float of which only the rendering matters: neg where value < 0, and the
\* absolute value as h hundredths of 1000^u (u = 0 one, 1 thousand, .. 4
\* trillion), h < 10^8 and rounded down
Dec(neg, h, u) == [neg |-> neg, h |-> h, u |-> u]

\* float(snapshot['total']) of a total kept in units of 0.5e-9: its hundredths
as_dollars(total) == Dec(total < 0, Abs(total) \div 20000000, 0)

DigitChars == <<"0", "1", "2", "3", "4", "5", "6", "7", "8", "9">>

\* str(n) of a natural number
RECURSIVE Digits(_)
Digits(n) ==
    IF n < 10 THEN <<DigitChars[n + 1]>>
    ELSE Append(Digits(n \div 10), DigitChars[(n % 10) + 1])

\* rounding num / den (num >= 0, den > 0) toward zero (fault injected for C15)
round_down(num, den) == num \div den

\* the nearest integer to num / den (num >= 0, den > 0), a tie going to the even
\* one: round() and the 'f' format on a value the double holds exactly
round_half_even(num, den) ==
    LET q == num \div den
        r == num % den
    IN  IF 2 * r < den THEN q
        ELSE IF 2 * r > den THEN q + 1
        ELSE IF q % 2 = 0 THEN q ELSE q + 1

\* s.rstrip(ch)
RECURSIVE rstrip(_, _)
rstrip(s, ch) ==
    IF s # <<>> /\ s[Len(s)] = ch THEN rstrip(SubSeq(s, 1, Len(s) - 1), ch) ELSE s

\* absolute >= 1000^k
at_least(value, k) ==
    IF value.u > k THEN value.h >= 1
    ELSE IF value.u = k THEN value.h >= 100
    ELSE value.u + 1 = k /\ value.h >= 100000

Suffixes == <<"K", "M", "B", "T">>

\* the unit of the if / elif chain: 4 for T down to 0 for none
unit_of(value) ==
    IF at_least(value, 4) THEN 4
    ELSE IF at_least(value, 3) THEN 3
    ELSE IF at_least(value, 2) THEN 2
    ELSE IF at_least(value, 1) THEN 1
    ELSE 0

\* shown = absolute / 1000^k, as the quotient <<numerator, denominator>> of
\* hundredths
shown_of(value, k) ==
    IF value.u > k THEN <<value.h * 1000, 1>>
    ELSE IF value.u = k THEN <<value.h, 1>>
    ELSE <<value.h, 1000>>

\* one_decimal is f'{shown:.1f}' and no_decimal is f'{shown:.0f}'
format_compact_usd(value) ==
    LET sign == IF value.neg THEN <<"-">> ELSE <<>>
        k == unit_of(value)
        shown == shown_of(value, k)
        tenths == round_half_even(shown[1], 10 * shown[2])
        one_decimal == Digits(tenths \div 10) \o <<".">> \o Digits(tenths % 10)
        no_decimal == Digits(round_half_even(shown[1], 100 * shown[2]))
        compact == IF k > 0
                   THEN rstrip(rstrip(one_decimal, "0"), ".") \o <<Suffixes[k]>>
                   ELSE no_decimal
    IN  sign \o <<"$">> \o compact

\* rounded is int(round(value)) of the quotient <<num, den>>, den > 0
format_rounded_percent(percent) ==
    LET rounded == IF percent[1] < 0 THEN -round_half_even(-percent[1], percent[2])
                   ELSE round_half_even(percent[1], percent[2])
    IN  IF rounded >= 0 THEN <<"+">> \o Digits(rounded) \o <<"%">>
        ELSE <<"-">> \o Digits(-rounded) \o <<"%">>

\* the f-string of compact_label on a total that is a Dec
decimal_label(total, percent) ==
    format_compact_usd(total) \o <<" ">> \o format_rounded_percent(percent)

compact_label(snap) == decimal_label(as_dollars(snap.total), snap.daily_percent)

\* ------------------------------------------------------------ main's output
SignInText == <<"S", "i", "g", "n", " ", "I", "n">>
PlaceholderText == <<"$", "-", "-">>

\* last_label.txt
StateFile(text) == [exists |-> TRUE, text |-> text]
NoStateFile == [exists |-> FALSE, text |-> <<>>]

Whitespace == {" ", "\n"}

\* s.strip()
RECURSIVE strip(_)
strip(s) ==
    IF s # <<>> /\ s[1] \in Whitespace THEN strip(Tail(s))
    ELSE IF s # <<>> /\ s[Len(s)] \in Whitespace THEN strip(SubSeq(s, 1, Len(s) - 1))
    ELSE s

\* what main printed: a line of text, or the JSON object of --json
Output(kind, ok, error_code, message, snap, label) ==
    [kind |-> kind, ok |-> ok, error_code |-> error_code, message |-> message,
     source |-> snap.source, total |-> snap.total,
     daily_percent |-> snap.daily_percent, label |-> label]
TextLine(text) == Output("text", TRUE, <<>>, <<>>, NoSnapshot, text)
NoOutput == Output("none", TRUE, <<>>, <<>>, NoSnapshot, <<>>)
NoExit == -1

\* plain_failure with the sign-in prompt failing the process (fault injected
\* for C17)
plain_failure_hard(file, code) ==
    IF file.exists THEN [text |-> strip(file.text), status |-> 0]
    ELSE IF code = CodeSigninRequired THEN [text |-> SignInText, status |-> 1]
    ELSE [text |-> PlaceholderText, status |-> 1]

\* the plain-mode tail of main's except branch: what is printed and returned
plain_failure(file, code) ==
    IF file.exists THEN [text |-> strip(file.text), status |-> 0]
    ELSE IF code = CodeSigninRequired THEN [text |-> SignInText, status |-> 0]
    ELSE [text |-> PlaceholderText, status |-> 1]

\* main: code, text = msg.split(':', 1), 'unavailable' when there is no colon
split_failure(msg) ==
    IF \E i \in 1..Len(msg) : msg[i] = ":"
    THEN LET c == CHOOSE i \in 1..Len(msg) :
                     msg[i] = ":" /\ \A j \in 1..(i - 1) : msg[j] # ":"
         IN  [code |-> SubSeq(msg, 1, c - 1), text |-> SubSeq(msg, c + 1, Len(msg))]
    ELSE [code |-> CodeUnavailable, text |-> msg]

\* --------------------------------------------------------------- OAuth config
\* the four values services_url, client_id, client_secret, redirect_uri, as one
ConfigValues == {"cfgA", "cfgB"}
NoValues == "none"

\* oauth_config.json: "absent"; "partial" when it does not parse, is no dict or
\* lacks a truthy one of the four fields; "complete" with the values it holds
ConfigFile(status, values) == [status |-> status, values |-> values]
ConfigFiles ==
    {ConfigFile("absent", NoValues), ConfigFile("partial", NoValues),
     ConfigFile("complete", "cfgA")}

\* ------------------------------------------------------------------- state
VARIABLES
    clock,            \* wall clock, minutes
    storage,          \* the host's WebKit storage: "missing", "no_origin", "present"
    tokenCache,       \* token_cache.json
    configFile,       \* oauth_config.json
    pc,               \* position in fetch_snapshot
    auth,             \* the authSession object loaded
    oauth_cfg,        \* oauth_cfg = _load_oauth_config()
    now,              \* now = _now_utc()
    cached,           \* cached = _load_cached_access_token(refresh_token)
    access_token,
    via,              \* where access_token came from: cached, session, refreshed
    attempt,          \* 1 in the try block, 2 in the except block
    accounts_obj,
    balances_obj,
    totals_by_date,
    accounts_payload,
    history_payload,
    live_error,
    cache_error,
    snapshot,         \* the return value of fetch_snapshot
    failure,          \* str() of the RuntimeError fetch_snapshot raises
    log,              \* requests sent and host stores read, in order
    stateFile,        \* last_label.txt
    stdout,           \* what main printed
    exit_code,        \* what main returned, NoExit while it runs
    earlier           \* the entry an earlier invocation's exchange persisted

env == <<clock, storage, tokenCache, configFile>>
tokenVars == <<now, cached, access_token, via, attempt>>
liveData == <<accounts_obj, balances_obj, totals_by_date>>
cacheData == <<accounts_payload, history_payload>>
outcome == <<cache_error, snapshot, failure>>
mainVars == <<stateFile, stdout, exit_code>>
vars == <<env, pc, auth, oauth_cfg, tokenVars, liveData, cacheData, live_error, outcome, log,
          mainVars, earlier>>

\* an entry of the log: the operation, the block it ran in (1 the try block, 2 the
\* except block), the credential sent, the HTTP status (0 when there is none) and
\* what the call returned: a token, "dict", or NoTok when it raised
Event(op, att, sent, status, got) ==
    [op |-> op, attempt |-> att, sent |-> sent, status |-> status, got |-> got]

LocalsReset ==
    /\ auth = NoSession
    /\ oauth_cfg = NoValues
    /\ now = 0
    /\ cached = <<>>
    /\ access_token = NoTok
    /\ via = "none"
    /\ attempt = 1
    /\ accounts_obj = NoPayload
    /\ balances_obj = NoPayload
    /\ totals_by_date = NoTotals
    /\ accounts_payload = NoCachePayload
    /\ history_payload = NoCachePayload
    /\ live_error = NoError
    /\ cache_error = NoError
    /\ snapshot = NoSnapshot
    /\ failure = <<>>
    /\ log = <<>>

Init ==
    /\ clock \in 0..MaxClock
    /\ storage \in {"missing", "no_origin", "present"}
    /\ tokenCache \in TokenFiles
    /\ configFile \in ConfigFiles
    /\ pc = "idle"
    /\ LocalsReset
    /\ stateFile = NoStateFile
    /\ stdout = NoOutput
    /\ exit_code = NoExit
    /\ earlier = NoTokenFile

\* ----------------------------------------------------------------- actions
\* main calls fetch_snapshot
Invoke ==
    /\ pc = "idle"
    /\ pc' = "session"
    /\ stdout' = NoOutput
    /\ exit_code' = NoExit
    /\ UNCHANGED <<env, auth, oauth_cfg, tokenVars, liveData, cacheData, live_error, outcome, log,
                   stateFile, earlier>>

\* falling through to the cache path after a live result (fault injected for C9)
fall_through_to_cache == "cache_locate"

\* where fetch_snapshot goes when compute_live_snapshot returns
after_live_success == "returned"

\* where fetch_snapshot goes when compute_live_snapshot raises
after_live_failure == "cache_locate"

\* except Exception as e: live_error = e; the frame of compute_live_snapshot
\* and its locals are gone
LiveFail(e) ==
    /\ live_error' = e
    /\ pc' = after_live_failure
    /\ auth' = NoSession
    /\ oauth_cfg' = NoValues
    /\ now' = 0
    /\ cached' = <<>>
    /\ access_token' = NoTok
    /\ via' = "none"
    /\ attempt' = 1
    /\ accounts_obj' = NoPayload
    /\ balances_obj' = NoPayload
    /\ totals_by_date' = NoTotals

\* _load_auth_session and the refreshToken / datasetId checks
LoadAuthSession ==
    /\ pc = "session"
    /\ log' = Append(log, Event("read authSession", 1, NoTok, 0, NoTok))
    /\ \/ /\ storage = "missing"
          /\ LiveFail(Exc("FileNotFoundError", 0, MsgStorageMissing))
       \/ /\ storage = "no_origin"
          /\ LiveFail(Exc("RuntimeError", 0, MsgNoOrigin))
       \/ /\ storage = "present"
          /\ \E e \in {Exc("FileNotFoundError", 0, MsgDbMissing),
                       Exc("RuntimeError", 0, MsgNoAuthSession),
                       Exc("RuntimeError", 0, MsgNotBlob),
                       Exc("JSONDecodeError", 0, MsgJsonDecode),
                       Exc("RuntimeError", 0, MsgNotObject)} : LiveFail(e)
       \/ /\ storage = "present"
          /\ \E s \in Sessions :
                IF s.refreshToken = NoTok
                THEN LiveFail(Exc("RuntimeError", 0, MsgNoRefreshToken))
                ELSE IF s.datasetId = NoId
                THEN LiveFail(Exc("RuntimeError", 0, MsgNoDatasetId))
                ELSE /\ auth' = s
                     /\ pc' = "config"
                     /\ UNCHANGED <<oauth_cfg, tokenVars, liveData, live_error>>
    /\ UNCHANGED <<earlier, mainVars, env, cacheData, outcome>>

\* the cached-config test never passing (fault injected for C18)
config_hit_never(file) == FALSE

\* the file exists, parses to a dict and holds the four fields, each truthy
config_hit(file) == file.status = "complete"

\* _load_oauth_config
LoadOauthConfig ==
    /\ pc = "config"
    /\ \/ /\ config_hit(configFile)
          /\ oauth_cfg' = configFile.values
          /\ pc' = "token"
          /\ UNCHANGED <<configFile, auth, tokenVars, liveData, live_error, log>>
       \/ /\ ~config_hit(configFile)
          /\ \/ /\ log' = Append(log, Event("GET /", 1, NoTok, 0, NoTok))
                /\ LiveFail(Exc("URLError", 0, MsgUrlError))
                /\ UNCHANGED configFile
             \/ /\ log' = Append(log, Event("GET /", 1, NoTok, 200, NoTok))
                /\ LiveFail(Exc("RuntimeError", 0, MsgNoBundle))
                /\ UNCHANGED configFile
             \/ /\ log' = log \o <<Event("GET /", 1, NoTok, 200, NoTok),
                                   Event("GET main.js", 1, NoTok, 0, NoTok)>>
                /\ LiveFail(Exc("URLError", 0, MsgUrlError))
                /\ UNCHANGED configFile
             \/ /\ log' = log \o <<Event("GET /", 1, NoTok, 200, NoTok),
                                   Event("GET main.js", 1, NoTok, 200, NoTok)>>
                /\ LiveFail(Exc("RuntimeError", 0, MsgNoConfigModule))
                /\ UNCHANGED configFile
             \/ \E extracted \in ConfigValues :
                   /\ log' = log \o <<Event("GET /", 1, NoTok, 200, NoTok),
                                      Event("GET main.js", 1, NoTok, 200, NoTok)>>
                   /\ configFile' = ConfigFile("complete", extracted)
                   /\ oauth_cfg' = extracted
                   /\ pc' = "token"
                   /\ UNCHANGED <<auth, tokenVars, liveData, live_error>>
    /\ UNCHANGED <<earlier, mainVars, clock, storage, tokenCache, cacheData, outcome>>

\* now = _now_utc() and the cached / session branches
ChooseToken ==
    /\ pc = "token"
    /\ now' = clock
    /\ cached' = load_cached_access_token(tokenCache, auth.refreshToken)
    /\ attempt' = 1
    /\ LET chosen == select_token(tokenCache, auth, clock)
       IN  /\ access_token' = chosen.token
           /\ via' = chosen.via
           /\ pc' = IF chosen.token = NoTok THEN "exchange" ELSE "accounts"
    /\ UNCHANGED <<earlier, mainVars, env, auth, oauth_cfg, liveData, cacheData, live_error, outcome, log>>

\* the tokens the endpoint may issue while `used` is the token in use
FreshTokens(used) == IssuedTokens \ {used}

\* _refresh_access_token, then access_token = ... and _write_token_cache;
\* at "exchange" before the try block, at "reauth" in the except block
RefreshExchange(at, att) ==
    /\ pc = at
    /\ \/ /\ log' = Append(log, Event("POST /oauth/token", att, auth.refreshToken, 0, NoTok))
          /\ LiveFail(Exc("URLError", 0, MsgUrlError))
          /\ UNCHANGED tokenCache
       \/ /\ log' = Append(log, Event("POST /oauth/token", att, auth.refreshToken, 400, NoTok))
          /\ LiveFail(Exc("HTTPError", 400, MsgHttp400))
          /\ UNCHANGED tokenCache
       \/ /\ log' = Append(log, Event("POST /oauth/token", att, auth.refreshToken,
                                      Unauthorized, NoTok))
          /\ LiveFail(Exc("HTTPError", Unauthorized, MsgHttp401))
          /\ UNCHANGED tokenCache
       \/ /\ log' = Append(log, Event("POST /oauth/token", att, auth.refreshToken, 200, NoTok))
          /\ LiveFail(Exc("RuntimeError", 0, MsgNoAccessToken))
          /\ UNCHANGED tokenCache
       \/ \E tok \in FreshTokens(access_token), exp \in ExpTimes \cup {NoExp} :
             /\ log' = Append(log, Event("POST /oauth/token", att, auth.refreshToken, 200, tok))
             /\ access_token' = tok
             /\ tokenCache' = write_token_cache(auth.refreshToken,
                                  [accessToken |-> tok, accessTokenExpired |-> exp])
             /\ via' = "refreshed"
             /\ attempt' = att
             /\ pc' = "accounts"
             /\ UNCHANGED <<auth, oauth_cfg, now, cached, liveData, live_error>>
    /\ UNCHANGED <<earlier, mainVars, clock, storage, configFile, cacheData, outcome>>

InitialExchange == RefreshExchange("exchange", 1)

\* may_retry without regard to the status code (fault injected for C23)
may_retry_any_code(code, att) == att = 1

\* may_retry without regard to the block (fault injected for C5)
may_retry_again(code, att) == code = Unauthorized

\* except HTTPError as e: if e.code != 401: raise
may_retry(code, att) == code = Unauthorized /\ att = 1

\* an HTTPError of _api_get_json inside or after the try block
HttpFailure(code, msg) ==
    IF may_retry(code, attempt)
    THEN pc' = "reauth" /\ UNCHANGED <<auth, oauth_cfg, tokenVars, liveData, live_error>>
    ELSE LiveFail(Exc("HTTPError", code, msg))

\* _api_get_json(services_url, path, access_token, ...) raising
GetFails(path, notDict) ==
    \/ /\ log' = Append(log, Event(path, attempt, access_token, 0, NoTok))
       /\ LiveFail(Exc("URLError", 0, MsgUrlError))
    \/ /\ log' = Append(log, Event(path, attempt, access_token, Unauthorized, NoTok))
       /\ HttpFailure(Unauthorized, MsgHttp401)
    \/ /\ log' = Append(log, Event(path, attempt, access_token, 500, NoTok))
       /\ HttpFailure(500, MsgHttp500)
    \/ /\ log' = Append(log, Event(path, attempt, access_token, 200, NoTok))
       /\ LiveFail(Exc("RuntimeError", 0, notDict))

\* accounts_obj = _api_get_json(services_url, '/accounts', ...)
GetAccounts ==
    /\ pc = "accounts"
    /\ \/ GetFails("GET /accounts", MsgBadAccounts)
       \/ /\ log' = Append(log, Event("GET /accounts", attempt, access_token, 200,
                                      "dict"))
          /\ accounts_obj' \in AccountsResponses
          /\ pc' = "balances"
          /\ UNCHANGED <<auth, oauth_cfg, tokenVars, balances_obj, totals_by_date, live_error>>
    /\ UNCHANGED <<earlier, mainVars, env, cacheData, outcome>>

\* balances_obj = _api_get_json(services_url, '/accounts/balances', ...)
GetBalances ==
    /\ pc = "balances"
    /\ \/ GetFails("GET /accounts/balances", MsgBadBalances)
       \/ /\ log' = Append(log, Event("GET /accounts/balances", attempt, access_token, 200,
                                      "dict"))
          /\ balances_obj' \in BalancesResponses
          /\ pc' = "reconcile"
          /\ UNCHANGED <<auth, oauth_cfg, tokenVars, accounts_obj, totals_by_date, live_error>>
    /\ UNCHANGED <<earlier, mainVars, env, cacheData, outcome>>

\* the forced refresh of the except block
ForcedRefresh == RefreshExchange("reauth", 2)

\* the shape check, the preferred tags, the per-date totals and the result
Reconcile ==
    /\ pc = "reconcile"
    /\ IF ~accounts_obj.isList \/ ~balances_obj.isList
       THEN /\ LiveFail(Exc("RuntimeError", 0, MsgBadShape))
            /\ UNCHANGED snapshot
       ELSE LET totals == live_totals(accounts_obj.resources, balances_obj.resources)
            IN  IF all_dates(totals) = {}
                THEN /\ LiveFail(Exc("RuntimeError", 0, MsgNoTotals))
                     /\ UNCHANGED snapshot
                ELSE /\ totals_by_date' = totals
                     /\ snapshot' = live_snapshot(totals)
                     /\ pc' = after_live_success
                     /\ UNCHANGED <<auth, oauth_cfg, tokenVars, accounts_obj, balances_obj,
                                    live_error>>
    /\ UNCHANGED <<earlier, mainVars, env, cacheData, cache_error, failure, log>>

\* except Exception as cache_error: raise RuntimeError(f'{code}:{message}')
CacheFail(e) ==
    /\ cache_error' = e
    /\ failure' = combined_failure(live_error, e)
    /\ pc' = "raised"

\* the two find_blob_by_store_name calls of compute_cache_snapshot
CacheLocate ==
    /\ pc = "cache_locate"
    /\ \/ /\ storage = "missing"
          /\ log' = Append(log, Event("read accountsStore", 1, NoTok, 0, NoTok))
          /\ CacheFail(Exc("FileNotFoundError", 0, MsgStorageMissing))
       \/ /\ storage = "no_origin"
          /\ log' = Append(log, Event("read accountsStore", 1, NoTok, 0, NoTok))
          /\ CacheFail(Exc("RuntimeError", 0, MsgNoAccountsStore))
       \/ /\ storage = "present"
          /\ \/ /\ log' = Append(log, Event("read accountsStore", 1, NoTok, 0, NoTok))
                /\ CacheFail(Exc("RuntimeError", 0, MsgNoAccountsStore))
             \/ /\ log' = log \o <<Event("read accountsStore", 1, NoTok, 200, NoTok),
                                   Event("read historyStore", 1, NoTok, 0, NoTok)>>
                /\ CacheFail(Exc("RuntimeError", 0, MsgNoHistoryStore))
             \/ /\ log' = log \o <<Event("read accountsStore", 1, NoTok, 200, NoTok),
                                   Event("read historyStore", 1, NoTok, 200, NoTok)>>
                /\ pc' = "cache_decode"
                /\ UNCHANGED <<cache_error, failure>>
    /\ UNCHANGED <<earlier, mainVars, env, auth, oauth_cfg, tokenVars, liveData, cacheData, live_error, snapshot>>

\* the two decode_payload calls of compute_cache_snapshot
CacheDecode ==
    /\ pc = "cache_decode"
    /\ \/ /\ CacheFail(Exc("ValueError", 0, MsgUndecodable))
          /\ UNCHANGED cacheData
       \/ /\ accounts_payload' \in AccountsStorePayloads
          /\ history_payload' \in HistoryStorePayloads
          /\ pc' = "cache_compute"
          /\ UNCHANGED <<cache_error, failure>>
    /\ UNCHANGED <<earlier, mainVars, env, auth, oauth_cfg, tokenVars, liveData, live_error, snapshot, log>>

\* compute_total and compute_daily_percent on the decoded payloads
CacheCompute ==
    /\ pc = "cache_compute"
    /\ IF accounts_payload.shape # "expected" \/ history_payload.shape # "expected"
       THEN /\ CacheFail(Exc("AttributeError", 0, MsgListHasNoGet))
            /\ UNCHANGED snapshot
       ELSE /\ snapshot' = Snapshot(compute_total(accounts_payload.items),
                                    compute_daily_percent(history_payload.items),
                                    "cache")
            /\ pc' = "returned"
            /\ UNCHANGED <<cache_error, failure>>
    /\ UNCHANGED <<earlier, mainVars, env, auth, oauth_cfg, tokenVars, liveData, cacheData, live_error, log>>

\* the process ends: every local of main and of fetch_snapshot is gone
ProcessEnds ==
    /\ pc' = "idle"
    /\ auth' = NoSession
    /\ oauth_cfg' = NoValues
    /\ now' = 0
    /\ cached' = <<>>
    /\ access_token' = NoTok
    /\ via' = "none"
    /\ attempt' = 1
    /\ accounts_obj' = NoPayload
    /\ balances_obj' = NoPayload
    /\ totals_by_date' = NoTotals
    /\ accounts_payload' = NoCachePayload
    /\ history_payload' = NoCachePayload
    /\ live_error' = NoError
    /\ cache_error' = NoError
    /\ snapshot' = NoSnapshot
    /\ failure' = <<>>
    /\ log' = <<>>
    /\ UNCHANGED <<env, earlier>>

\* main after fetch_snapshot returned: the label, printed as JSON with --json,
\* else written to last_label.txt and printed
PrintLabel ==
    /\ pc = "returned"
    /\ LET label == compact_label(snapshot)
       IN  \/ /\ stdout' = Output("json", TRUE, <<>>, <<>>, snapshot, label)
              /\ UNCHANGED stateFile
           \/ /\ stateFile' = StateFile(label \o <<"\n">>)
              /\ stdout' = TextLine(label)
    /\ exit_code' = 0
    /\ ProcessEnds

\* main's except branch after fetch_snapshot raised
ReportFailure ==
    /\ pc = "raised"
    /\ LET parts == split_failure(failure)
           plain == plain_failure(stateFile, parts.code)
       IN  \/ /\ stdout' = Output("json", FALSE, parts.code, parts.text, NoSnapshot, <<>>)
              /\ exit_code' = 1
           \/ /\ stdout' = TextLine(plain.text)
              /\ exit_code' = plain.status
    /\ UNCHANGED stateFile
    /\ ProcessEnds

\* fetch_snapshot has returned or raised; main reports and the process ends
Exit == PrintLabel \/ ReportFailure

\* time passes between invocations
Tick ==
    /\ pc = "idle"
    /\ clock < MaxClock
    /\ clock' = clock + 1
    /\ UNCHANGED <<earlier, mainVars, storage, tokenCache, configFile, pc, auth, oauth_cfg, tokenVars, liveData,
                   cacheData, live_error, outcome, log>>

\* the desktop host is installed, signed in or removed between invocations
HostChange ==
    /\ pc = "idle"
    /\ storage' \in {"missing", "no_origin", "present"} \ {storage}
    /\ UNCHANGED <<earlier, mainVars, clock, tokenCache, configFile, pc, auth, oauth_cfg, tokenVars, liveData,
                   cacheData, live_error, outcome, log>>

Next ==
    \/ Invoke
    \/ LoadAuthSession
    \/ LoadOauthConfig
    \/ ChooseToken
    \/ InitialExchange
    \/ GetAccounts
    \/ GetBalances
    \/ ForcedRefresh
    \/ Reconcile
    \/ CacheLocate
    \/ CacheDecode
    \/ CacheCompute
    \/ Exit
    \/ Tick
    \/ HostChange

Spec == Init /\ [][Next]_vars

\* ------------------------------------------------------------ log helpers
IsApiGet(e) == e.op \in {"GET /accounts", "GET /accounts/balances"}
IsExchange(e) == e.op = "POST /oauth/token"
IsCacheRead(e) == e.op \in {"read accountsStore", "read historyStore"}
LogIndexes == 1..Len(log)

\* the token cache file is bound to the session's refresh token and its expiry is
\* more than the margin after t
CacheBoundFresh(file, session, t) ==
    /\ file.exists
    /\ file.refreshToken = session.refreshToken
    /\ file.accessTokenExpired # NoExp
    /\ file.accessTokenExpired - t > Margin

\* the session embeds an access token whose expiry is more than the margin after t
SessionTokenFresh(session, t) ==
    /\ session.accessToken # NoTok
    /\ session.accessTokenExpired # NoExp
    /\ session.accessTokenExpired - t > Margin

\* ------------------------------------------------------------------ claims
\* C1 (token reuse): when the token cache entry is bound to the session's refresh
\* token and expires more than 2 minutes after now, the token decision takes the
\* cached access token and goes straight to the API calls; while that token is in
\* use every API call so far carried it and no POST /oauth/token was sent.
C1_TokenReuse ==
    /\ [][(pc = "token" /\ CacheBoundFresh(tokenCache, auth, clock))
            => /\ pc' = "accounts"
               /\ via' = "cached"
               /\ access_token' = tokenCache.accessToken
               /\ log' = log]_vars
    /\ [](via = "cached"
            => /\ cached # <<>>
               /\ access_token = cached[1]
               /\ \A i \in LogIndexes :
                     /\ ~IsExchange(log[i])
                     /\ IsApiGet(log[i]) => log[i].sent = cached[1])

\* C1 witness: both first API calls were sent with the cached token
C1_Witness ==
    /\ via = "cached"
    /\ pc = "reconcile"
    /\ \E i \in LogIndexes : log[i].op = "GET /accounts" /\ log[i].sent = cached[1]
    /\ \E i \in LogIndexes :
          log[i].op = "GET /accounts/balances" /\ log[i].sent = cached[1]


\* the token cache file is bound to a refresh token other than the session's
CacheBoundElsewhere(file, session) ==
    file.exists /\ file.refreshToken # session.refreshToken

\* C2 as stated (token invalidation): when the cache entry is bound to R1 and the
\* session carries another refresh token R2, the token decision ignores the entry
\* and goes to a fresh refresh-token exchange.
C2_Original ==
    [][(pc = "token" /\ CacheBoundElsewhere(tokenCache, auth))
          => (via' # "cached" /\ pc' = "exchange")]_vars

\* C2 amended: when the cache entry is bound to R1 and the session carries another
\* refresh token R2, the entry's token is never taken; the session-embedded token
\* is used without an exchange when it expires more than 2 minutes after now, and
\* otherwise a fresh exchange is made with R2 and the token it returns is the
\* access token used.
C2_TokenInvalidation ==
    /\ [][(pc = "token" /\ CacheBoundElsewhere(tokenCache, auth))
            => /\ via' # "cached"
               /\ cached' = <<>>
               /\ IF SessionTokenFresh(auth, clock)
                  THEN pc' = "accounts" /\ access_token' = auth.accessToken /\ log' = log
                  ELSE pc' = "exchange"]_vars
    /\ [][(pc = "exchange" /\ pc' = "accounts")
            => /\ Len(log') = Len(log) + 1
               /\ IsExchange(log'[Len(log')])
               /\ log'[Len(log')].sent = auth.refreshToken
               /\ log'[Len(log')].got = access_token'
               /\ access_token' \in IssuedTokens]_vars

\* C2 witness: the stale entry was ignored and the exchange is about to be made
C2_Witness ==
    /\ pc = "exchange"
    /\ CacheBoundElsewhere(tokenCache, auth)
    /\ tokenCache.accessTokenExpired # NoExp
    /\ tokenCache.accessTokenExpired - now > Margin

\* C3 (expiry margin): in the try block an access token taken from the cache or
\* from the session expires strictly more than 2 minutes after now, and it is the
\* token every API call of that block was sent with.
C3_ExpiryMargin ==
    /\ via = "cached"
        => /\ cached # <<>>
           /\ cached[2] # NoExp
           /\ cached[2] - now > Margin
           /\ access_token = cached[1]
    /\ via = "session"
        => /\ auth.accessTokenExpired # NoExp
           /\ auth.accessTokenExpired - now > Margin
           /\ access_token = auth.accessToken
    /\ via \in {"cached", "session"}
        => \A i \in LogIndexes :
              IsApiGet(log[i]) => log[i].sent = access_token /\ log[i].attempt = 1

\* C3 witness: a session token expiring just beyond the margin was sent
C3_Witness ==
    /\ via = "session"
    /\ auth.accessTokenExpired - now = Margin + 1
    /\ \E i \in LogIndexes : IsApiGet(log[i]) /\ log[i].sent = auth.accessToken

\* C4 (decision order): the cached token is used whenever a bound unexpired cache
\* entry exists, also when the session token is valid; the session token is used
\* exactly when the cache entry is missing, bound to another refresh token or not
\* beyond the margin, and the session token is valid; the exchange is reached
\* exactly when neither source yields a token.
C4_DecisionOrder ==
    [][pc = "token"
         => /\ CacheBoundFresh(tokenCache, auth, clock)
                => via' = "cached" /\ access_token' = tokenCache.accessToken
            /\ via' = "session"
                <=> (~CacheBoundFresh(tokenCache, auth, clock)
                     /\ SessionTokenFresh(auth, clock))
            /\ via' = "session" => access_token' = auth.accessToken
            /\ pc' = "exchange"
                <=> (~CacheBoundFresh(tokenCache, auth, clock)
                     /\ ~SessionTokenFresh(auth, clock))
            /\ pc' # "exchange" => pc' = "accounts" /\ log' = log]_vars

\* C4 witness: both sources were usable and the cached token was taken
C4_Witness ==
    /\ pc = "accounts"
    /\ via = "cached"
    /\ access_token = tokenCache.accessToken
    /\ SessionTokenFresh(auth, now)


CachePath == {"cache_locate", "cache_decode", "cache_compute"}
IsForcedRefresh(e) == IsExchange(e) /\ e.attempt = 2

\* C5 (re-authentication): a 401 of either GET in the try block is followed by one
\* forced refresh exchange and, when that returns a token, by GET /accounts and
\* GET /accounts/balances sent with the new token; there is never a second forced
\* refresh; a GET that fails in the retry, or fails in the try block with anything
\* but a 401, is the last request of the live path and its error is the live error.
C5_Reauthentication ==
    \A i \in LogIndexes :
        /\ (IsApiGet(log[i]) /\ log[i].attempt = 1 /\ log[i].status = Unauthorized)
            => IF i = Len(log) THEN pc = "reauth"
               ELSE IsForcedRefresh(log[i + 1])
        /\ IsForcedRefresh(log[i])
            => /\ i > 1
               /\ IsApiGet(log[i - 1])
               /\ log[i - 1].attempt = 1
               /\ log[i - 1].status = Unauthorized
               /\ \A j \in LogIndexes : IsForcedRefresh(log[j]) => j = i
               /\ log[i].got # NoTok
                   => IF i = Len(log) THEN pc = "accounts" /\ access_token = log[i].got
                      ELSE /\ log[i + 1].op = "GET /accounts"
                           /\ log[i + 1].attempt = 2
                           /\ log[i + 1].sent = log[i].got
        /\ (log[i].op = "GET /accounts" /\ log[i].attempt = 2 /\ log[i].got # NoTok)
            => IF i = Len(log) THEN pc = "balances" /\ access_token = log[i].sent
               ELSE /\ log[i + 1].op = "GET /accounts/balances"
                    /\ log[i + 1].attempt = 2
                    /\ log[i + 1].sent = log[i].sent
        /\ (/\ IsApiGet(log[i])
            /\ log[i].status \notin {0, 200}
            /\ (log[i].attempt = 2 \/ log[i].status # Unauthorized))
            => /\ \A j \in (i + 1)..Len(log) : IsCacheRead(log[j])
               /\ live_error.type = "HTTPError"
               /\ live_error.code = log[i].status
               /\ pc \in CachePath \cup {"returned", "raised"}

\* C5 witness: a 401, the forced refresh, both calls retried with the new token,
\* and a second 401 that became the live path's failure
C5_Witness ==
    /\ pc = "cache_locate"
    /\ live_error.code = Unauthorized
    /\ \E i \in LogIndexes :
          /\ i + 3 = Len(log)
          /\ IsApiGet(log[i]) /\ log[i].attempt = 1 /\ log[i].status = Unauthorized
          /\ IsForcedRefresh(log[i + 1]) /\ log[i + 1].got # NoTok
          /\ log[i + 2].op = "GET /accounts" /\ log[i + 2].sent = log[i + 1].got
          /\ log[i + 3].op = "GET /accounts/balances"
          /\ log[i + 3].sent = log[i + 1].got
          /\ log[i + 3].status = Unauthorized


Finished == pc \in {"returned", "raised"}
Decoded == accounts_payload # NoCachePayload /\ history_payload # NoCachePayload

\* C6 (fallback): once the live path has raised and the cache path has
\* located and decoded both payloads, fetch_snapshot returns a snapshot tagged
\* "cache" and raises nothing; it raises only when both paths failed.
C6_Fallback ==
    /\ (Finished /\ live_error # NoError /\ Decoded)
        => pc = "returned" /\ snapshot.source = "cache" /\ failure = <<>>
    /\ pc = "raised" => live_error # NoError /\ cache_error # NoError

\* the live-error messages that name the session, its keys or being logged in
SessionMessages ==
    {MsgNoAuthSession, MsgNotBlob, MsgNotObject, MsgNoRefreshToken, MsgNoDatasetId}

\* C7 (classification): when both paths fail the raised message is the code, a
\* colon and the live error's own message, where the code is signin_required when
\* the live message tells of missing or invalid session data and unavailable
\* otherwise, whatever the cache error is.
C7_Classification ==
    pc = "raised"
        => /\ failure =
                (IF live_error.msg \in SessionMessages
                 THEN CodeSigninRequired ELSE CodeUnavailable)
                \o <<":">> \o live_error.msg
           /\ split_failure(failure).text = live_error.msg

\* C7 witness: a missing refresh token and an undecodable cache
C7_Witness ==
    /\ pc = "raised"
    /\ live_error.msg = MsgNoRefreshToken
    /\ cache_error.msg = MsgUndecodable
    /\ split_failure(failure).code = CodeSigninRequired

\* C8 (session not found): when both paths fail and the live path failed because
\* the host's storage directory, the origin record or the authSession key was
\* absent, the code is signin_required.
C8_SessionNotFound ==
    (pc = "raised" /\ live_error.msg \in {MsgStorageMissing, MsgNoOrigin, MsgNoAuthSession})
        => split_failure(failure).code = CodeSigninRequired

\* C9 (live before cache): the cache path is entered only with a live error; after
\* its first read no request of the live path follows; a 401 of the try block was
\* answered by the forced refresh before the cache path began; the cache path is
\* entered at most once and never when the live snapshot is returned.
C9_LiveBeforeCache ==
    /\ (pc \in CachePath \/ \E i \in LogIndexes : IsCacheRead(log[i]))
        => /\ live_error # NoError
           /\ pc \in CachePath \cup {"returned", "raised"}
           /\ pc = "returned" => snapshot.source = "cache"
    /\ \A i \in LogIndexes :
          IsCacheRead(log[i]) => \A j \in (i + 1)..Len(log) : IsCacheRead(log[j])
    /\ \A i, j \in LogIndexes :
          (log[i].op = "read accountsStore" /\ log[j].op = "read accountsStore") => i = j
    /\ (pc \in CachePath /\ \E i \in LogIndexes :
            IsApiGet(log[i]) /\ log[i].attempt = 1 /\ log[i].status = Unauthorized)
        => \E j \in LogIndexes : IsForcedRefresh(log[j])
    /\ (pc = "returned" /\ snapshot.source = "live")
        => live_error = NoError /\ \A i \in LogIndexes : ~IsCacheRead(log[i])

\* C9 witness: the retry failed, then the cache path ran and returned
C9_Witness ==
    /\ pc = "returned"
    /\ snapshot.source = "cache"
    /\ \E i, j, k \in LogIndexes :
          /\ i < j /\ j < k
          /\ IsForcedRefresh(log[i]) /\ log[i].got # NoTok
          /\ IsApiGet(log[j]) /\ log[j].attempt = 2
          /\ log[k].op = "read accountsStore"


\* ------------------------------------------- the computations on drawn data
\* sequences over S of length at most n
SeqsUpTo(S, n) == UNION {[1..k -> S] : k \in 0..n}

\* deleted / ignored / closed as a record of GET /accounts or of resourcesById
\* carries them: no flag, or one of the three
FlagChoices ==
    {<<FALSE, FALSE, FALSE>>, <<TRUE, FALSE, FALSE>>,
     <<FALSE, TRUE, FALSE>>, <<FALSE, FALSE, TRUE>>}

\* the answers of GET /accounts: one record per account id
AccountLists ==
    {<<Account("a1", f[1], f[2], f[3], FALSE, c1, FALSE),
       Account("a2", g[1], g[2], g[3], FALSE, c2, FALSE)>> :
        f \in FlagChoices, g \in FlagChoices, c1 \in BOOLEAN, c2 \in BOOLEAN}

\* the rows GET /accounts/balances may hold
BalanceRows ==
    {Balance(k, d, t, JNum(v)) :
        k \in {"a1", "a2"}, d \in {1, 2}, t \in BalanceTypes, v \in {0, 1, 2}}

\* three connected accounts, none flagged
ConnectedAccounts ==
    <<Account("a1", FALSE, FALSE, FALSE, FALSE, TRUE, FALSE),
      Account("a2", FALSE, FALSE, FALSE, FALSE, TRUE, FALSE),
      Account("a3", FALSE, FALSE, FALSE, FALSE, TRUE, FALSE)>>

\* the dates of a daily table
DailyDates == <<1, 2, 3>>

\* a daily table of ONLINE rows: for each account and date no row, or a row
\* with amount 1 or 2; slot i is account ((i - 1) \div Len(DailyDates)) + 1 on
\* date DailyDates[((i - 1) % Len(DailyDates)) + 1]
DailyTables == [1..(Len(ConnectedAccounts) * Len(DailyDates)) -> {0, 1, 2}]

RECURSIVE daily_rows(_, _)
daily_rows(table, n) ==
    IF n = 0 THEN <<>>
    ELSE LET before == daily_rows(table, n - 1)
         IN  IF table[n] = 0 THEN before
             ELSE Append(before,
                         Balance(ConnectedAccounts[((n - 1) \div Len(DailyDates)) + 1].id,
                                 DailyDates[((n - 1) % Len(DailyDates)) + 1],
                                 "ONLINE", JNum(table[n])))

\* the cells a history row may hold
HistoryCells == {Cell(d, JNum(v)) : d \in {1, 2}, v \in {0, 1, 2, 3}}

\* the values of data.resourcesById
ResourceRecords ==
    {Resource(f[1], f[2], f[3], n, c, JNull, JNull) :
        f \in FlagChoices, n \in {JNull, JNum(0), JNum(3)}, c \in {JNull, JNum(5)}}

\* compute_live_snapshot about to reconcile the two answers it has received
InitLive ==
    /\ pc = "reconcile"
    /\ auth = Session("R1", "ds1", SessionToken, MaxExp)
    /\ oauth_cfg = "cfgA"
    /\ now = 0
    /\ cached = <<>>
    /\ access_token = SessionToken
    /\ via = "session"
    /\ attempt = 1
    /\ \/ /\ \E accounts \in AccountLists : accounts_obj = ApiPayload(TRUE, accounts)
          /\ \E balances \in SeqsUpTo(BalanceRows, MaxRows) :
                balances_obj = ApiPayload(TRUE, balances)
       \/ /\ accounts_obj = ApiPayload(TRUE, ConnectedAccounts)
          /\ \E table \in DailyTables :
                balances_obj = ApiPayload(TRUE, daily_rows(table, Len(ConnectedAccounts) * Len(DailyDates)))
       \/ /\ accounts_obj \in {ApiPayload(FALSE, <<>>), ApiPayload(TRUE, ConnectedAccounts)}
          /\ \/ balances_obj = ApiPayload(FALSE, <<>>)
             \/ \E balances \in SeqsUpTo({Balance(k, d, "ONLINE", amount) :
                                               k \in {"a1", NoId}, d \in {0, 1},
                                               amount \in {JNull, JNum(2)}}, MaxRows) :
                   balances_obj = ApiPayload(TRUE, balances)
    /\ totals_by_date = NoTotals
    /\ accounts_payload = NoCachePayload
    /\ history_payload = NoCachePayload
    /\ live_error = NoError
    /\ log = <<Event("read authSession", 1, NoTok, 0, NoTok),
               Event("GET /accounts", 1, SessionToken, 200, "dict"),
               Event("GET /accounts/balances", 1, SessionToken, 200, "dict")>>

\* compute_cache_snapshot about to compute on the two payloads it has decoded,
\* after the live path failed at the token exchange
InitCache ==
    /\ pc = "cache_compute"
    /\ auth = NoSession
    /\ oauth_cfg = NoValues
    /\ now = 0
    /\ cached = <<>>
    /\ access_token = NoTok
    /\ via = "none"
    /\ attempt = 1
    /\ accounts_obj = NoPayload
    /\ balances_obj = NoPayload
    /\ totals_by_date = NoTotals
    /\ \/ /\ \E resources \in SeqsUpTo(ResourceRecords, MaxRows) :
                accounts_payload \in {CachePayload("expected", resources),
                                      CachePayload("other", <<>>)}
          /\ history_payload \in HistoryStorePayloads
       \/ /\ accounts_payload \in AccountsStorePayloads
          /\ \E first \in SeqsUpTo(HistoryCells, MaxRows), second \in SeqsUpTo(HistoryCells, 1) :
                history_payload = CachePayload("expected", <<first, second>>)
    /\ live_error = Exc("URLError", 0, MsgUrlError)
    /\ log = <<Event("read authSession", 1, NoTok, 0, NoTok),
               Event("POST /oauth/token", 1, "R1", 0, NoTok),
               Event("read accountsStore", 1, NoTok, 200, NoTok),
               Event("read historyStore", 1, NoTok, 200, NoTok)>>

InitData ==
    /\ stateFile = NoStateFile
    /\ stdout = NoOutput
    /\ exit_code = NoExit
    /\ earlier = NoTokenFile
    /\ clock = 0
    /\ storage = "present"
    /\ tokenCache = NoTokenFile
    /\ configFile = ConfigFile("complete", "cfgA")
    /\ cache_error = NoError
    /\ snapshot = NoSnapshot
    /\ failure = <<>>
    /\ (InitLive \/ InitCache)

NextData ==
    \/ Reconcile
    \/ CacheCompute

SpecData == InitData /\ [][NextData]_vars

\* ------------------------------------------------------------ C10
\* a record carries one of the three flags
Flagged(rec) == rec.isDeleted \/ rec.isIgnored \/ rec.isClosed

FlaggedIds(accounts) ==
    {accounts[i].id : i \in {j \in 1..Len(accounts) : Flagged(accounts[j])}}

OfUnflagged(accounts, bal) == bal.accountId \notin FlaggedIds(accounts)
Unflagged(rec) == ~Flagged(rec)

\* the balance rows with those of flagged accounts removed
RowsOfUnflagged(accounts, balances) ==
    SelectSeq(balances, LAMBDA bal : OfUnflagged(accounts, bal))

PercentEq(p, q) == p[1] * q[2] = q[1] * p[2]

\* what C11 asks of a percent given the latest and the previous total
NearZeroRule(percent, latest_total, prev_total) ==
    IF Abs(prev_total) < NearZero
    THEN PercentEq(percent, PercentZero)
    ELSE PercentEq(percent, PercentChange(latest_total, prev_total))

\* C11 (near-zero reference): on the live path and on the cache path, when a
\* previous date exists, the percent returned is 0 if the previous total's
\* absolute value is below 1e-9 and (latest - prev) / |prev| * 100 otherwise.
C11_NearZeroReference ==
    /\ (pc = "returned" /\ snapshot.source = "live" /\ prev_date(totals_by_date) # 0)
        => NearZeroRule(snapshot.daily_percent,
                        totals_by_date[latest_date(totals_by_date)].total,
                        totals_by_date[prev_date(totals_by_date)].total)
    /\ (pc = "returned" /\ snapshot.source = "cache")
        => LET totals == history_totals(all_cells(history_payload.items))
               dates == Sorted(all_dates(totals))
           IN  Len(dates) >= 2
                  => NearZeroRule(snapshot.daily_percent,
                                  totals[dates[Len(dates)]].total,
                                  totals[dates[Len(dates) - 1]].total)


\* ------------------------------------------------------------ C12
\* the balance rows of the response that pass the tests, by date
UsableAt(d) ==
    {i \in 1..Len(balances_obj.resources) :
        /\ row_is_usable(balances_obj.resources[i], preferred_tags(accounts_obj.resources))
        /\ balances_obj.resources[i].balanceOn = d}
RowCount(d) == Cardinality(UsableAt(d))

\* d has the maximum row count, and no later date has it
LatestUsable(d) ==
    /\ RowCount(d) > 0
    /\ \A e \in Dates : RowCount(e) <= RowCount(d)
    /\ \A e \in Dates : RowCount(e) = RowCount(d) => e <= d

\* C12 (latest usable date): the live snapshot's total is the total of the last
\* date among the dates whose count of usable rows is the maximum over all dates.
C12_LatestUsableDate ==
    (pc = "returned" /\ snapshot.source = "live")
        => \E d \in Dates :
              /\ LatestUsable(d)
              /\ totals_by_date[d].count = RowCount(d)
              /\ snapshot.total = totals_by_date[d].total

\* C12 witness: date 1 has three rows, the later date 2 has two, and the total
\* returned is that of date 1 and not that of date 2
C12_Witness ==
    /\ pc = "returned"
    /\ snapshot.source = "live"
    /\ RowCount(1) = 3
    /\ RowCount(2) = 2
    /\ RowCount(3) = 0
    /\ snapshot.total = totals_by_date[1].total
    /\ snapshot.total # totals_by_date[2].total

\* ------------------------------------------------------------ C13
\* the non-flagged records of the response with the id k
RecordsOf(k) ==
    {i \in 1..Len(accounts_obj.resources) :
        accounts_obj.resources[i].id = k /\ ~Flagged(accounts_obj.resources[i])}

\* the tag C13 gives account k: that of its last non-flagged record
TagOf(k) ==
    LET rec == accounts_obj.resources[Max(RecordsOf(k))]
    IN  IF rec.hasOnlineBalance \/ rec.isConnected \/ rec.institutionLoginId
        THEN "ONLINE" ELSE "CURRENT"

CarriesTag(bal) ==
    /\ RecordsOf(bal.accountId) # {}
    /\ bal.balanceType = TagOf(bal.accountId)

\* C13 (single preference): every non-flagged account has one tag, ONLINE or
\* CURRENT; the per-date totals and counts are those of the rows carrying their
\* account's tag (and having an account id and a numeric amount), so a row of
\* the other type adds nothing.
C13_SinglePreference ==
    (pc = "returned" /\ snapshot.source = "live")
        => /\ \A k \in AccountKeys :
                 RecordsOf(k) # {}
                    => preferred_tags(accounts_obj.resources)[k] = TagOf(k)
           /\ totals_by_date =
                 live_totals(accounts_obj.resources,
                             SelectSeq(balances_obj.resources, CarriesTag))
           /\ \A d \in Dates :
                 totals_by_date[d].count =
                    Cardinality({i \in 1..Len(balances_obj.resources) :
                                    /\ CarriesTag(balances_obj.resources[i])
                                    /\ balances_obj.resources[i].accountId # NoId
                                    /\ balances_obj.resources[i].balanceAmount.kind = "number"
                                    /\ balances_obj.resources[i].balanceOn = d})

\* C13 witness: an account has an ONLINE and a CURRENT row on the same date and
\* only one of them was counted
C13_Witness ==
    /\ pc = "returned"
    /\ snapshot.source = "live"
    /\ \E i, j \in 1..Len(balances_obj.resources) :
          /\ balances_obj.resources[i].accountId = balances_obj.resources[j].accountId
          /\ balances_obj.resources[i].balanceOn = balances_obj.resources[j].balanceOn
          /\ balances_obj.resources[i].balanceType = "ONLINE"
          /\ balances_obj.resources[j].balanceType = "CURRENT"
          /\ balances_obj.resources[i].balanceAmount.v = 1
          /\ balances_obj.resources[j].balanceAmount.v = 2
          /\ totals_by_date[balances_obj.resources[i].balanceOn].count = 1


\* --------------------------------------------- main formatting drawn snapshots
\* percents are drawn in tenths, from -MaxTenths / 10 to MaxTenths / 10
FormatPercents == {<<t, 10>> : t \in (0 - MaxTenths)..MaxTenths}

\* totals are drawn as w.ff of each unit; ff is kept to hundredths a double
\* rounds as their decimal does (x.25 and x.75 it holds exactly)
FormatTotals ==
    {Dec(n, (w * 100) + f, u) :
        n \in BOOLEAN, w \in {0, 1, 2, 9, 12, 500, 999},
        f \in {0, 4, 25, 30, 50, 75, 96}, u \in 0..4}

\* main holding the snapshot fetch_snapshot returned, whose locals are gone
InitFormat ==
    /\ clock = 0
    /\ storage = "present"
    /\ tokenCache = NoTokenFile
    /\ configFile = ConfigFile("complete", "cfgA")
    /\ pc = "returned"
    /\ auth = NoSession
    /\ oauth_cfg = NoValues
    /\ now = 0
    /\ cached = <<>>
    /\ access_token = NoTok
    /\ via = "none"
    /\ attempt = 1
    /\ accounts_obj = NoPayload
    /\ balances_obj = NoPayload
    /\ totals_by_date = NoTotals
    /\ accounts_payload = NoCachePayload
    /\ history_payload = NoCachePayload
    /\ live_error = NoError
    /\ cache_error = NoError
    /\ \E total \in FormatTotals, percent \in FormatPercents :
          snapshot = Snapshot(total, percent, "live")
    /\ failure = <<>>
    /\ log = <<>>
    /\ stateFile = NoStateFile
    /\ stdout = NoOutput
    /\ exit_code = NoExit
    /\ earlier = NoTokenFile

\* compact_label applied to the snapshot drawn
FormatLabel ==
    /\ pc = "returned"
    /\ pc' = "idle"
    /\ stdout' = TextLine(decimal_label(snapshot.total, snapshot.daily_percent))
    /\ exit_code' = 0
    /\ UNCHANGED <<env, auth, oauth_cfg, tokenVars, liveData, cacheData, live_error, outcome, log,
                   stateFile, earlier>>

NextFormat == FormatLabel

SpecFormat == InitFormat /\ [][NextFormat]_vars

\* the two parts of a label, before and after its space
SpaceAt(label) == CHOOSE i \in 1..Len(label) : label[i] = " "
LabelAmount(label) == SubSeq(label, 1, SpaceAt(label) - 1)
LabelPercent(label) == SubSeq(label, SpaceAt(label) + 1, Len(label))

\* ------------------------------------------------------------ C14
\* the unit a value reaches: the largest k with |value| >= 1000^k
ReachedUnit(value) ==
    IF value.h = 0 THEN 0
    ELSE IF value.h < 100 /\ value.u > 0 THEN value.u - 1
    ELSE value.u

\* C14 (format_amount): the amount printed is the sign, "$" and the absolute
\* value in the largest unit it reaches, with that unit's letter; 1 250 000 is
\* printed "$1.3M", -500 "-$500" and 999 "$999".
C14_FormatAmount ==
    (pc = "idle" /\ stdout.kind = "text")
        => LET amount == LabelAmount(stdout.label)
               value == snapshot.total
           IN  /\ (amount[1] = "-") = value.neg
               /\ amount[IF value.neg THEN 2 ELSE 1] = "$"
               /\ ReachedUnit(value) > 0
                     => amount[Len(amount)] = Suffixes[ReachedUnit(value)]
               /\ ReachedUnit(value) = 0
                     => amount[Len(amount)] \in {DigitChars[i] : i \in 1..10}
               /\ value = Dec(FALSE, 125, 2)
                     => amount = <<"$", "1", ".", "3", "M">>
               /\ value = Dec(TRUE, 50000, 0)
                     => amount = <<"-", "$", "5", "0", "0">>
               /\ value = Dec(FALSE, 99900, 0)
                     => amount = <<"$", "9", "9", "9">>

\* ------------------------------------------------------------ C15
\* r is a nearest integer to the quotient p
NearestTo(p, r) == 2 * Abs(p[1] - (r * p[2])) <= p[2]

SignedText(r) ==
    (IF r >= 0 THEN <<"+">> ELSE <<"-">>) \o Digits(Abs(r)) \o <<"%">>

\* C15 (format_percent): the percent printed is a nearest integer to the value
\* with "+" before it when that integer is 0 or more and "-" otherwise, and "%"
\* after it; 2.4 is printed "+2%", -0.6 "-1%" and 0.0 "+0%".
C15_FormatPercent ==
    (pc = "idle" /\ stdout.kind = "text")
        => LET text == LabelPercent(stdout.label)
               p == snapshot.daily_percent
           IN  /\ \E r \in (0 - MaxTenths)..MaxTenths :
                     NearestTo(p, r) /\ text = SignedText(r)
               /\ PercentEq(p, <<24, 10>>) => text = <<"+", "2", "%">>
               /\ PercentEq(p, <<-6, 10>>) => text = <<"-", "1", "%">>
               /\ p[1] = 0 => text = <<"+", "0", "%">>
               /\ (2 * Abs(p[1]) < p[2]) => text = <<"+", "0", "%">>

\* C15 witness: -0.6 was printed "-1%" after the amount
C15_Witness ==
    /\ pc = "idle"
    /\ stdout.kind = "text"
    /\ snapshot.daily_percent = <<-6, 10>>
    /\ LabelPercent(stdout.label) = <<"-", "1", "%">>


\* ------------------------------------------------------------ C17
\* the code C7 gives the failure raised
RaisedCode ==
    IF live_error.msg \in SessionMessages THEN CodeSigninRequired ELSE CodeUnavailable

\* C17 (plain-mode failure output): when fetch_snapshot raised, plain mode prints
\* the stripped content of last_label.txt if the file exists, else "Sign In" when
\* the code is signin_required, else "$--", and returns 1 only in the last case;
\* --json prints {ok: false, error_code, message} with the code and the live
\* error's message; last_label.txt is left as it was.
C17_FailureOutput ==
    [][(pc = "raised" /\ pc' = "idle")
         => /\ stdout'.kind \in {"text", "json"}
            /\ stateFile' = stateFile
            /\ stdout'.kind = "text"
                  => /\ stdout'.label =
                          (IF stateFile.exists THEN strip(stateFile.text)
                           ELSE IF RaisedCode = CodeSigninRequired THEN SignInText
                           ELSE PlaceholderText)
                     /\ exit_code' \in {0, 1}
                     /\ exit_code' = 1
                          <=> (~stateFile.exists /\ RaisedCode # CodeSigninRequired)
            /\ stdout'.kind = "json"
                  => /\ stdout'.ok = FALSE
                     /\ stdout'.error_code = RaisedCode
                     /\ stdout'.message = live_error.msg
                     /\ exit_code' = 1
      ]_vars

\* C17 witness: with no last label and no session, plain mode printed "Sign In"
\* and returned 0
C17_Witness ==
    /\ pc = "idle"
    /\ ~stateFile.exists
    /\ stdout.kind = "text"
    /\ stdout.label = SignInText
    /\ exit_code = 0


\* ------------------------------------------------------------ C16
\* the value of the first of the four fields that is a number, 0 when none is
FirstNumeric(rec) ==
    IF rec.normalizedBalance.kind = "number" THEN rec.normalizedBalance.v
    ELSE IF rec.currentBalanceAsOf.kind = "number" THEN rec.currentBalanceAsOf.v
    ELSE IF rec.onlineBalance.kind = "number" THEN rec.onlineBalance.v
    ELSE IF rec.balanceAsOf.kind = "number" THEN rec.balanceAsOf.v
    ELSE 0

RECURSIVE SumFirstNumeric(_)
SumFirstNumeric(resources) ==
    IF resources = <<>> THEN 0
    ELSE SumFirstNumeric(Tail(resources))
            + (IF Flagged(Head(resources)) THEN 0 ELSE FirstNumeric(Head(resources)))

\* C16 (cache total): the cache snapshot's total is the sum, over the records
\* that are not deleted, ignored or closed, of the first field among
\* normalizedBalance, currentBalanceAsOf, onlineBalance, balanceAsOf that is a
\* number, a 0 included, and of 0 for a record that has none.
C16_CacheTotal ==
    (pc = "returned" /\ snapshot.source = "cache")
        => snapshot.total = SumFirstNumeric(accounts_payload.items)


\* ------------------------------------------------------------ C18
IsConfigFetch(e) == e.op \in {"GET /", "GET main.js"}

\* C18 (config cache hit): with oauth_config.json complete, _load_oauth_config
\* returns the values the file holds, sends no request and leaves the file as it
\* is; otherwise it fetches, and the file is written, with the values it then
\* returns, only when both fetches and the extraction succeeded; no other step
\* writes the file or fetches the bundle.
C18_ConfigCacheHit ==
    /\ [][pc = "config"
            => IF configFile.status = "complete"
               THEN /\ pc' = "token"
                    /\ oauth_cfg' = configFile.values
                    /\ log' = log
                    /\ configFile' = configFile
               ELSE /\ Len(log') > Len(log)
                    /\ log'[Len(log) + 1].op = "GET /"
                    /\ pc' = "token"
                          => /\ Len(log') = Len(log) + 2
                             /\ log'[Len(log) + 1].status = 200
                             /\ log'[Len(log) + 2].op = "GET main.js"
                             /\ log'[Len(log) + 2].status = 200
                             /\ configFile'.status = "complete"
                             /\ oauth_cfg' = configFile'.values
                    /\ pc' # "token" => configFile' = configFile]_vars
    /\ [][pc # "config"
            => /\ configFile' = configFile
               /\ \A i \in 1..Len(log') :
                     IsConfigFetch(log'[i]) => i <= Len(log) /\ log[i] = log'[i]]_vars

\* C18 witness: the token decision is reached with the saved values and no fetch
C18_Witness ==
    /\ pc = "token"
    /\ configFile.status = "complete"
    /\ oauth_cfg = configFile.values
    /\ \A i \in LogIndexes : ~IsConfigFetch(log[i])

\* ------------------------------------------------------------------ C19
\* a step on which a refresh exchange has just returned an access token
ExchangeSucceeds ==
    /\ Len(log') = Len(log) + 1
    /\ IsExchange(log'[Len(log')])
    /\ log'[Len(log')].got # NoTok

\* C19: token_cache.json is written exactly on the step on which a refresh
\* exchange returns an access token, and the entry written is bound to the
\* session's refresh token and holds the token just returned (which is the
\* token the request continues with); on every other step (a cached or a
\* session-embedded token chosen, an exchange that fails or returns no
\* accessToken, any other step) the file is left as it was.
C19_TokenCacheWrites ==
    [][
        /\ ExchangeSucceeds
            => /\ tokenCache'.exists
               /\ tokenCache'.refreshToken = auth.refreshToken
               /\ tokenCache'.refreshToken = log'[Len(log')].sent
               /\ tokenCache'.accessToken = log'[Len(log')].got
               /\ access_token' = log'[Len(log')].got
        /\ ~ExchangeSucceeds => tokenCache' = tokenCache
    ]_vars

\* a forced refresh has written the token that replaces the rejected one
C19_Witness ==
    /\ pc = "accounts"
    /\ via = "refreshed"
    /\ attempt = 2
    /\ tokenCache.refreshToken = auth.refreshToken
    /\ tokenCache.accessToken = access_token
    /\ \E i \in 1..Len(log) :
          /\ log[i].status = Unauthorized
          /\ log[i].sent # access_token

\* ------------------------------------------------------------------ C20
\* the number of usable rows of the response on each date
UsableCounts ==
    LET preferred == preferred_tags(accounts_obj.resources)
        rows == balances_obj.resources
    IN  [d \in Dates |->
            Cardinality({i \in 1..Len(rows) :
                            row_is_usable(rows[i], preferred) /\ rows[i].balanceOn = d})]

\* the dates with a usable row, and those among them with the maximum count
DatesWithRows(counts) == {d \in Dates : counts[d] > 0}
DatesComplete(counts) ==
    {d \in DatesWithRows(counts) : \A e \in Dates : counts[e] <= counts[d]}

\* the member of S that exactly one member of S follows
SecondToLastOf(S) == CHOOSE d \in S : Cardinality({e \in S : e > d}) = 1

\* the reference date C20 names, 0 for none
ReferenceDate(counts) ==
    IF Cardinality(DatesComplete(counts)) >= 2 THEN SecondToLastOf(DatesComplete(counts))
    ELSE IF Cardinality(DatesWithRows(counts)) >= 2 THEN SecondToLastOf(DatesWithRows(counts))
    ELSE 0

\* C20 (previous date): the live snapshot's percent is taken against the total
\* of the second-to-last complete date when two or more dates are complete,
\* otherwise against that of the second-to-last date overall when two or more
\* dates have rows, and is 0 when there is no such date. (A reference total of
\* exactly 1e-9 in absolute value is the subject of C11 and is left open here.)
C20_PreviousDate ==
    (pc = "returned" /\ snapshot.source = "live")
        => LET counts == UsableCounts
               ref == ReferenceDate(counts)
               latest_total == snapshot.total
               prev_total == totals_by_date[ref].total
           IN  /\ ref = 0 => PercentEq(snapshot.daily_percent, PercentZero)
               /\ (ref # 0 /\ Abs(prev_total) > NearZero)
                    => /\ totals_by_date[ref].count = counts[ref]
                       /\ PercentEq(snapshot.daily_percent,
                                    PercentChange(latest_total, prev_total))
               /\ (ref # 0 /\ Abs(prev_total) < NearZero)
                    => PercentEq(snapshot.daily_percent, PercentZero)

\* C20 witness: dates 1 and 3 are complete and date 2 is not, and the percent
\* returned is the change from date 1, which differs from the change from date 2
C20_Witness ==
    /\ pc = "returned"
    /\ snapshot.source = "live"
    /\ RowCount(1) = 3
    /\ RowCount(2) = 2
    /\ RowCount(3) = 3
    /\ totals_by_date[2].total > NearZero
    /\ PercentEq(snapshot.daily_percent,
                 PercentChange(totals_by_date[3].total, totals_by_date[1].total))
    /\ ~PercentEq(snapshot.daily_percent,
                  PercentChange(totals_by_date[3].total, totals_by_date[2].total))

\* ------------------------------------------------------------------ C21
\* C21 (last-label file): a step that ends a successful invocation, in either
\* output mode, leaves last_label.txt, when present, holding the compact label
\* of the snapshot just obtained, and every other step (a failing invocation
\* included) leaves the file as it was; so after any sequence of invocations
\* the file holds the label of the most recent successful snapshot.
C21_LastLabelFile ==
    [][
        /\ (pc = "returned" /\ pc' = "idle")
            => (stateFile'.exists
                  => strip(stateFile'.text) = compact_label(snapshot))
        /\ ~(pc = "returned" /\ pc' = "idle") => stateFile' = stateFile
    ]_vars

\* ------------------------------------------------------------------ C22
\* a balance row survives: its account has a non-flagged record, its type is
\* that account's tag, its date is well formed and its amount is a number
Survives(bal) ==
    /\ bal.accountId # NoId
    /\ CarriesTag(bal)
    /\ bal.balanceOn # 0
    /\ bal.balanceAmount.kind = "number"

SurvivingRows ==
    {i \in 1..Len(balances_obj.resources) : Survives(balances_obj.resources[i])}

\* compute_live_snapshot raises the error with the message msg: no snapshot
LiveRaises(msg) ==
    /\ pc' # "returned"
    /\ snapshot' = NoSnapshot
    /\ live_error'.type = "RuntimeError"
    /\ live_error'.msg = msg

\* C22 (live-path data errors): compute_live_snapshot raises when the accounts
\* or the balances response carries no list of resources, and when no balance
\* row survives the filtering; a snapshot it returns is computed from at least
\* one surviving row.
C22_LiveDataErrors ==
    [][
        pc = "reconcile"
            => /\ (~accounts_obj.isList \/ ~balances_obj.isList)
                    => LiveRaises(MsgBadShape)
               /\ (accounts_obj.isList /\ balances_obj.isList /\ SurvivingRows = {})
                    => LiveRaises(MsgNoTotals)
               /\ (pc' = "returned")
                    => /\ accounts_obj.isList /\ balances_obj.isList
                       /\ SurvivingRows # {}
                       /\ snapshot'.source = "live"
    ]_vars

\* C22 witness: the live path has raised for want of a surviving row and has
\* handed over to the cache path without a snapshot (its locals are gone)
C22_Witness ==
    /\ pc = "cache_locate"
    /\ live_error.type = "RuntimeError"
    /\ live_error.msg = MsgNoTotals
    /\ snapshot = NoSnapshot
    /\ totals_by_date = NoTotals

\* ------------------------------------------------------------------ C23
\* the places of the events a step appends to the log
NewEvents == IF Len(log') > Len(log) THEN (Len(log) + 1)..Len(log') ELSE {}

\* the session has been read and has passed the refreshToken / datasetId checks
SessionValidated == auth.refreshToken # NoTok /\ auth.datasetId # NoId

\* an exchange or an API GET that raised
RequestFailed(e) == (IsExchange(e) \/ IsApiGet(e)) /\ e.got = NoTok

\* a GET of the try block answered 401
FirstUnauthorized(e) == IsApiGet(e) /\ e.status = Unauthorized /\ e.attempt = 1

\* the order of the steps of one live attempt: the session read is the first
\* event, a config fetch happens with the session validated and before any token
\* is held or any exchange or API GET is sent, an exchange or an API GET is sent
\* with the config resolved, and an API GET carries the token acquired
StepOrder ==
    [][\A i \in NewEvents :
          /\ (i = 1) <=> (log'[i].op = "read authSession")
          /\ IsConfigFetch(log'[i])
                => /\ SessionValidated
                   /\ oauth_cfg = NoValues
                   /\ access_token = NoTok
                   /\ \A j \in LogIndexes : ~IsExchange(log[j]) /\ ~IsApiGet(log[j])
          /\ IsExchange(log'[i])
                => SessionValidated /\ oauth_cfg # NoValues
          /\ IsApiGet(log'[i])
                => /\ SessionValidated /\ oauth_cfg # NoValues
                   /\ access_token # NoTok
                   /\ log'[i].sent = access_token]_vars

\* once the live path has raised, the invocation sends no request of the live
\* path: what it appends to the log are reads of the host's stores
StoppedStaysStopped ==
    [][live_error # NoError
          => \A i \in NewEvents : IsCacheRead(log'[i])]_vars

\* a session or config step that does not reach the next step raises
EarlyStepsFailFast ==
    [][/\ (pc = "session" /\ pc' # "config") => live_error' # NoError
       /\ (pc = "config" /\ pc' # "token") => live_error' # NoError]_vars

\* C23 as stated (step ordering): the order of the steps, and a failure at any
\* step, a failed exchange or API GET included, stops the live path.
C23_Original ==
    /\ StepOrder
    /\ StoppedStaysStopped
    /\ EarlyStepsFailFast
    /\ [][\A i \in NewEvents :
             RequestFailed(log'[i]) => live_error' # NoError]_vars

\* C23 amended: the order of the steps, and a failure at any step stops the
\* live path, except that a 401 answer to an API GET of the try block does not:
\* the live path goes on to the forced exchange.
C23_StepOrdering ==
    /\ StepOrder
    /\ StoppedStaysStopped
    /\ EarlyStepsFailFast
    /\ [][\A i \in NewEvents :
             /\ (RequestFailed(log'[i]) /\ ~FirstUnauthorized(log'[i]))
                   => live_error' # NoError
             /\ FirstUnauthorized(log'[i])
                   => live_error' = NoError /\ pc' = "reauth"]_vars

\* C23 witness: the config was fetched, then a token was acquired by an
\* exchange, then the API was called, and the failure of the last call has
\* stopped the live path
C23_Witness ==
    /\ pc = "cache_locate"
    /\ live_error # NoError
    /\ Len(log) >= 5
    /\ IsApiGet(log[Len(log)])
    /\ log[Len(log)].got = NoTok
    /\ \E i \in LogIndexes : \E j \in LogIndexes :
          /\ i < j
          /\ IsConfigFetch(log[i])
          /\ IsExchange(log[j])
          /\ log[j].got # NoTok

\* ------------------------------------------------------------------ C24
\* C24 (previous date before latest date): when the live path selects a previous
\* date, that date is strictly earlier than the latest date it selected, so the
\* percent compares the total of a later date with that of an earlier one.
C24_PreviousBeforeLatest ==
    (pc = "returned" /\ snapshot.source = "live" /\ prev_date(totals_by_date) # 0)
        => prev_date(totals_by_date) < latest_date(totals_by_date)

\* ------------------------------------------------------------------ C25
\* between invocations, after one whose refresh exchange returned a token with
\* an expiry more than the margin ahead: token_cache.json holds the entry that
\* invocation wrote, which `earlier` keeps for the rest of the behaviour (the
\* refresh tokens are interchangeable and so are the issued tokens: the earlier
\* invocation's are R1 and tA)
InitTokens ==
    /\ clock \in 0..MaxClock
    /\ storage = "present"
    /\ configFile = ConfigFile("complete", "cfgA")
    /\ \E exp \in ExpTimes :
          /\ Fresh(exp, clock)
          /\ earlier = write_token_cache("R1", [accessToken |-> "tA",
                                                accessTokenExpired |-> exp])
    /\ tokenCache = earlier
    /\ pc = "idle"
    /\ LocalsReset
    /\ stateFile = NoStateFile
    /\ stdout = NoOutput
    /\ exit_code = NoExit

\* the invocations that follow, the host staying installed and signed in
NextTokens ==
    \/ Invoke
    \/ LoadAuthSession
    \/ LoadOauthConfig
    \/ ChooseToken
    \/ InitialExchange
    \/ GetAccounts
    \/ GetBalances
    \/ ForcedRefresh
    \/ Reconcile
    \/ CacheLocate
    \/ CacheDecode
    \/ CacheCompute
    \/ Exit
    \/ Tick

SpecTokens == InitTokens /\ [][NextTokens]_vars

\* a later invocation, made with the refresh token of the earlier one while the
\* expiry the earlier one persisted is still more than the margin ahead, is at
\* its token decision
LaterTokenDecision ==
    /\ pc = "token"
    /\ earlier.exists
    /\ auth.refreshToken = earlier.refreshToken
    /\ earlier.accessTokenExpired - clock > Margin

\* the token decision takes the token the earlier invocation persisted and goes
\* to the API calls, no exchange having been made
TakesEarlierToken ==
    /\ pc' = "accounts"
    /\ via' = "cached"
    /\ access_token' = earlier.accessToken
    /\ log' = log
    /\ \A i \in LogIndexes : ~IsExchange(log[i])

====
